---- MODULE Spec2Model ----
(***************************************************************************)
(* Smart-Cat (KiCat AI assistant): the request orchestrator                *)
(* (AIAPIClient.send_message), the board mutation engine                   *)
(* (KiCadOperations), the permission manager and the circuit generator,    *)
(* over an external pcbnew board, and the assistant window                 *)
(* (SmartCatAssistantWindow) with the worker threads of its chat requests. *)
(*                                                                         *)
(* Abstractions:                                                           *)
(*  - a message is the set of keyword phrases it contains (every test the  *)
(*    code makes on a message is `keyword in message.lower()`);            *)
(*  - millimetre values are counted in hundredths of a millimetre and      *)
(*    pcbnew's internal unit is the nanometre (FromMM);                    *)
(*  - inner copper layer In<k>.Cu is the number k (pcbnew.In1_Cu + k - 1); *)
(*  - timestamps are left out of the records;                              *)
(*  - a pcbnew call that raises is the input `fault` of the operation;     *)
(*  - the board accessor holds independent fields: a setter writes the     *)
(*    field it names and no other.                                         *)
(*  - session_history and design_memory are those of the client the       *)
(*    window holds; a worker thread started with an earlier client no      *)
(*    longer changes them.                                                 *)
(***************************************************************************)
EXTENDS Integers, Sequences, FiniteSets, TLC

VARIABLES
    board,              \* the pcbnew board and module availability
    backup_settings,    \* KiCadOperations.backup_settings
    operation_history,  \* KiCadOperations.operation_history
    permission_level,   \* PermissionManager.permission_level
    permission_request, \* the last assessment and request of the permission manager
    current_circuit,    \* CircuitGenerator.current_circuit
    session_history,    \* AIAPIClient.session_history
    design_memory,      \* AIAPIClient.design_memory
    calls,              \* engine calls made by the last step, with results
    prev,               \* the step before ended in a successful mutation call
    undone,             \* an undo has succeeded since the last successful mutation
    before,             \* per history entry: track width, via size, via drill just before it
    recommended,        \* a layer recommendation for the active circuit is awaiting approval
    reply,              \* outcome of the last orchestrator message
    input_enabled,      \* the window's send_button and input_field are enabled
    chat_threads,       \* the ChatThreads the window has started, in order
    window_client       \* which AIAPIClient the window holds (0: its first)

vars == <<board, backup_settings, operation_history, permission_level,
          permission_request, current_circuit, session_history, design_memory, calls, prev,
          undone, before, recommended, reply, input_enabled, chat_threads,
          window_client>>

WindowVars == <<input_enabled, chat_threads, window_client>>

-----------------------------------------------------------------------------
(* Bounds of the model *)

\* longest operation history explored
MaxOps == 2
\* small layer-count targets 0..MaxSmallTarget are explored next to the limit
MaxSmallTarget == 4
\* pcbnew calls 1..MaxFault of one operation may be the one that raises
MaxFault == 3
\* session_history entries explored before messages stop
MaxTurns == 3
\* configured max_history_length of the explored sessions (20 by default)
MaxHistoryLength == 2
\* configured max_memory_length of the explored sessions (50 by default)
MaxMemoryLength == 1
\* ChatThreads one window starts
MaxThreads == 2
\* times the settings dialog is accepted (each gives the window a new client)
MaxClients == 1

-----------------------------------------------------------------------------
(* Program constants *)

\* KiCad limitation tested by can_add_copper_layers
MaxCopperLayers == 30
\* pcbnew.In30_Cu - pcbnew.In1_Cu + 1
InnerLayerCount == 30
\* nanometres in a hundredth of a millimetre (pcbnew.FromMM)
NmPerCentiMm == 10000

KICAD_OPS_AVAILABLE == TRUE
CIRCUIT_GEN_AVAILABLE == TRUE

FromMM(centi) == centi * NmPerCentiMm

Min(a, b) == IF a < b THEN a ELSE b

\* The element of a one-element set: a call's result, computed once.
The(S) == CHOOSE x \in S : TRUE

-----------------------------------------------------------------------------
(* The board accessor (pcbnew) *)

SettingKeys == {"track_width", "min_track_width", "via_size", "via_drill", "clearance"}

\* The board of a new KiCad project with `copper` copper layers.
NewBoard(pcbnew, present, saved, copper, clearanceAttr) ==
    [ pcbnew          |-> pcbnew,
      present         |-> present,
      file            |-> saved,
      copper          |-> copper,
      enabled         |-> 1..(copper - 2),
      custom_names    |-> {},
      track_width     |-> FromMM(25),
      via_size        |-> FromMM(80),
      via_drill       |-> FromMM(40),
      min_track_width |-> FromMM(20),
      min_via_size    |-> FromMM(40),
      min_via_drill   |-> FromMM(30),
      clearance       |-> FromMM(20),
      clearance_attr  |-> clearanceAttr ]

\* One write on the board accessor: SetEnabledLayers, SetLayerName,
\* SetCopperLayerCount or a design-settings setter.
Write(w, layer, value) == [w |-> w, layer |-> layer, value |-> value]

\* The value field `key` has after the first n writes of ws were made in order.
Written(old, ws, n, key) ==
    LET hits == {j \in 1..n : ws[j].w = key}
    IN  IF hits = {} THEN old
        ELSE ws[CHOOSE j \in hits : \A k \in hits : k <= j].value

\* The board after the first n writes of ws, in order.
ApplyWrites(b, ws, n) ==
    [ b EXCEPT
        !.enabled = @ \cup {ws[j].layer : j \in {i \in 1..n : ws[i].w = "enable"}},
        !.custom_names = @ \ {ws[j].layer : j \in {i \in 1..n : ws[i].w = "name"}},
        !.copper = Written(@, ws, n, "count"),
        !.track_width = Written(@, ws, n, "track_width"),
        !.min_track_width = Written(@, ws, n, "min_track_width"),
        !.via_size = Written(@, ws, n, "via_size"),
        !.via_drill = Written(@, ws, n, "via_drill"),
        \* m_TrackClearance: AttributeError where the attribute is missing
        !.clearance = IF b.clearance_attr THEN Written(@, ws, n, "clearance") ELSE @ ]

\* fault = 0: no pcbnew call raises.  fault = 1: a read before the first write
\* raises (in a mutation: inside backup_current_settings).  fault = k + 1:
\* write k raises, after writes 1..k-1 were made.  fault = Len(ws) + 2: the
\* call after the last write (pcbnew.Refresh) raises.  A fault past the last
\* call of the operation does not happen.
WritesDone(ws, fault) ==
    IF fault = 0 \/ fault >= Len(ws) + 2 THEN Len(ws)
    ELSE IF fault = 1 THEN 0
    ELSE fault - 2

-----------------------------------------------------------------------------
(* KiCadOperations *)

NoBackup == [empty |-> TRUE]

\* Results: (ok, message).  The message is the stem of the code's text.
Res(ok, msg) == [ok |-> ok, msg |-> msg]

NotIncreasing == "Board already has N copper layers"
LayerLimitExceeded == "KiCad supports maximum 30 copper layers"
OddLayerCountRejected == "Multilayer boards typically use even number of layers"
SettingsBackupFailed == "Failed to backup current settings"
NoActiveBoard == "No active board"
PcbnewNameError == "name 'pcbnew' is not defined"
ErrorAdding == "Error adding copper layers"
ErrorModifying == "Error modifying board settings"
NoOperations == "No operations to undo"
CannotUndoType == "Cannot undo operation type"
RestoreFailed == "Failed to restore settings"

can_modify_board(b) ==
    IF ~b.pcbnew THEN Res(FALSE, "KiCad pcbnew module not available")
    ELSE IF ~b.present THEN Res(FALSE, "No active board found")
    ELSE IF ~b.file THEN Res(FALSE, "Board must be saved before modifications")
    ELSE Res(TRUE, "Board ready for modifications")

\* The snapshot backup_current_settings stores.
Snapshot(b) ==
    [ empty           |-> FALSE,
      layer_count     |-> b.copper,
      track_width     |-> b.track_width,
      via_size        |-> b.via_size,
      via_drill       |-> b.via_drill,
      min_track_width |-> b.min_track_width,
      min_via_size    |-> b.min_via_size,
      min_via_drill   |-> b.min_via_drill,
      enabled_layers  |-> b.enabled ]

\* backup_current_settings without its try/except: a read that raises is not
\* reported and the snapshot is stored all the same.
backup_current_settings_unguarded(b, bk, raises) ==
    IF ~b.pcbnew \/ ~b.present THEN [ok |-> FALSE, backup |-> bk]
    ELSE [ok |-> TRUE, backup |-> Snapshot(b)]

\* backup_current_settings that keeps a snapshot it already holds.
backup_current_settings_keeping_first(b, bk, raises) ==
    IF ~b.pcbnew \/ raises THEN [ok |-> FALSE, backup |-> bk]
    ELSE IF ~b.present THEN [ok |-> FALSE, backup |-> bk]
    ELSE [ok |-> TRUE, backup |-> IF bk.empty THEN Snapshot(b) ELSE bk]

\* (ok, backup_settings after the call); raises = a pcbnew read raises.
backup_current_settings(b, bk, raises) ==
    IF ~b.pcbnew \/ raises THEN [ok |-> FALSE, backup |-> bk]
    ELSE IF ~b.present THEN [ok |-> FALSE, backup |-> bk]
    ELSE [ok |-> TRUE, backup |-> Snapshot(b)]

\* can_add_copper_layers without the test `target_count > 30`.
can_add_copper_layers_no_limit(b, target_count) ==
    IF ~b.pcbnew THEN Res(FALSE, PcbnewNameError)
    ELSE IF ~b.present THEN Res(FALSE, NoActiveBoard)
    ELSE IF target_count <= b.copper THEN Res(FALSE, NotIncreasing)
    ELSE IF target_count % 2 # 0 /\ target_count > 2
         THEN Res(FALSE, OddLayerCountRejected)
    ELSE Res(TRUE, "Can add copper layers")

\* can_add_copper_layers without the test on odd counts.
can_add_copper_layers_no_parity(b, target_count) ==
    IF ~b.pcbnew THEN Res(FALSE, PcbnewNameError)
    ELSE IF ~b.present THEN Res(FALSE, NoActiveBoard)
    ELSE IF target_count <= b.copper THEN Res(FALSE, NotIncreasing)
    ELSE IF target_count > MaxCopperLayers THEN Res(FALSE, LayerLimitExceeded)
    ELSE Res(TRUE, "Can add copper layers")

can_add_copper_layers(b, target_count) ==
    IF ~b.pcbnew THEN Res(FALSE, PcbnewNameError)
    ELSE IF ~b.present THEN Res(FALSE, NoActiveBoard)
    ELSE IF target_count <= b.copper THEN Res(FALSE, NotIncreasing)
    ELSE IF target_count > MaxCopperLayers THEN Res(FALSE, LayerLimitExceeded)
    ELSE IF target_count % 2 # 0 /\ target_count > 2
         THEN Res(FALSE, OddLayerCountRejected)
    ELSE Res(TRUE, "Can add copper layers")

\* Inner layers the loop of add_copper_layers touches: In1_Cu + i, i < layers_to_add.
LayersToEnable(layers_to_add) == Min(layers_to_add, InnerLayerCount)

\* The writes of add_copper_layers, in program order.
AddWrites(b, target_count) ==
    LET n == LayersToEnable(target_count - b.copper) IN
    [ j \in 1..(2 * n + 1) |->
        IF j = 2 * n + 1 THEN Write("count", 0, target_count)
        ELSE IF j % 2 = 1 THEN Write("enable", (j + 1) \div 2, 0)
        ELSE Write("name", j \div 2, 0) ]

AddOperation(b, target_count) ==
    [ type         |-> "add_copper_layers",
      from_count   |-> b.copper,
      to_count     |-> target_count,
      added_layers |-> 1..LayersToEnable(target_count - b.copper) ]

\* The engine state an operation works on and leaves behind.
Eng(b, bk, h, r) == [board |-> b, backup |-> bk, history |-> h, res |-> r]

add_copper_layers(b, bk, h, target_count, fault) ==
    LET can == can_add_copper_layers(b, target_count)
        saved == backup_current_settings(b, bk, fault = 1)
        ws == AddWrites(b, target_count)
        done == WritesDone(ws, fault)
        written == ApplyWrites(b, ws, done)
    IN  IF ~can.ok THEN Eng(b, bk, h, can)
        ELSE IF ~saved.ok THEN Eng(b, bk, h, Res(FALSE, SettingsBackupFailed))
        ELSE IF done < Len(ws)
             THEN Eng(written, saved.backup, h, Res(FALSE, ErrorAdding))
        ELSE IF fault = Len(ws) + 2
             \* pcbnew.Refresh() raises after the operation was recorded
             THEN Eng(written, saved.backup,
                      Append(h, AddOperation(b, target_count)),
                      Res(FALSE, ErrorAdding))
        ELSE Eng(written, saved.backup,
                 Append(h, AddOperation(b, target_count)),
                 Res(TRUE, "Successfully added copper layers"))

OrderedKeys == <<"track_width", "min_track_width", "via_size", "via_drill", "clearance">>

\* A modify_board_settings that also sets the minimum track width whenever it
\* sets the track width.
ModifyWrites_raising_min_width(settings) ==
    LET present == SelectSeq(OrderedKeys,
                             LAMBDA k : k \in DOMAIN settings
                                        \/ (k = "min_track_width"
                                            /\ "track_width" \in DOMAIN settings)) IN
    [ j \in 1..Len(present) |->
        Write(present[j], 0,
              FromMM(IF present[j] \in DOMAIN settings THEN settings[present[j]]
                     ELSE settings["track_width"])) ]

\* The writes of modify_board_settings, in program order: provided keys only.
ModifyWrites(settings) ==
    LET present == SelectSeq(OrderedKeys, LAMBDA k : k \in DOMAIN settings) IN
    [ j \in 1..Len(present) |->
        Write(present[j], 0, FromMM(settings[present[j]])) ]

\* changes_made: one note per provided key, in program order.
ChangesMade(b, settings) ==
    LET present == SelectSeq(OrderedKeys, LAMBDA k : k \in DOMAIN settings) IN
    [ j \in 1..Len(present) |->
        IF present[j] = "clearance" /\ ~b.clearance_attr
        THEN [key |-> "clearance", applied |-> FALSE, mm |-> 0]
        ELSE [key |-> present[j], applied |-> TRUE, mm |-> settings[present[j]]] ]

ModifyOperation(b, settings) ==
    [ type     |-> "modify_board_settings",
      settings |-> settings,
      changes  |-> ChangesMade(b, settings) ]

modify_board_settings(b, bk, h, settings, fault) ==
    LET saved == backup_current_settings(b, bk, fault = 1)
        ws == ModifyWrites(settings)
        done == WritesDone(ws, fault)
        written == ApplyWrites(b, ws, done)
    IN  IF ~b.pcbnew THEN Eng(b, bk, h, Res(FALSE, ErrorModifying))
        ELSE IF ~b.present THEN Eng(b, bk, h, Res(FALSE, NoActiveBoard))
        ELSE IF ~saved.ok THEN Eng(b, bk, h, Res(FALSE, SettingsBackupFailed))
        ELSE IF done < Len(ws)
             THEN Eng(written, saved.backup, h, Res(FALSE, ErrorModifying))
        ELSE IF fault = Len(ws) + 2
             THEN Eng(written, saved.backup,
                      Append(h, ModifyOperation(b, settings)),
                      Res(FALSE, ErrorModifying))
        ELSE Eng(written, saved.backup,
                 Append(h, ModifyOperation(b, settings)),
                 Res(TRUE, "Settings modified"))

\* restore_settings without its SetCurrentViaDrill call.
RestoreWrites_without_via_drill(bk) ==
    << Write("track_width", 0, bk.track_width),
       Write("via_size", 0, bk.via_size) >>

RestoreWrites(bk) ==
    << Write("track_width", 0, bk.track_width),
       Write("via_size", 0, bk.via_size),
       Write("via_drill", 0, bk.via_drill) >>

\* (ok, board after the call)
restore_settings(b, bk, fault) ==
    IF bk.empty THEN [ok |-> FALSE, board |-> b]
    ELSE IF ~b.pcbnew \/ ~b.present \/ fault = 1 THEN [ok |-> FALSE, board |-> b]
    ELSE LET ws == RestoreWrites(bk)
             done == WritesDone(ws, fault)
         IN  [ok |-> done = Len(ws), board |-> ApplyWrites(b, ws, done)]

ReversibleTypes == {"add_copper_layers", "modify_board_settings"}

can_undo_last_operation(h) ==
    IF h = <<>> THEN Res(FALSE, NoOperations)
    ELSE IF h[Len(h)].type \in ReversibleTypes THEN Res(TRUE, "Can undo")
    ELSE Res(FALSE, CannotUndoType)

Front(s) == SubSeq(s, 1, Len(s) - 1)

undo_last_operation(b, bk, h, fault) ==
    LET can == can_undo_last_operation(h)
        restored == restore_settings(b, bk, fault)
    IN  IF ~can.ok THEN Eng(b, bk, h, can)
        ELSE IF restored.ok
             THEN Eng(restored.board, bk, Front(h), Res(TRUE, "Undone"))
        ELSE Eng(restored.board, bk, h, Res(FALSE, RestoreFailed))

-----------------------------------------------------------------------------
(* PermissionManager *)

PermissionLevels == {"read_only", "ask_permission", "auto_approve_safe", "auto_approve_all"}

assess_modification_risk(modification_type) ==
    IF modification_type \in {"add_copper_layers", "change_layer_count", "modify_stackup"}
    THEN "critical"
    ELSE IF modification_type \in {"modify_board_settings", "change_track_width", "change_via_size"}
    THEN "high"
    ELSE IF modification_type \in {"move_component", "rotate_component"}
    THEN "medium"
    ELSE IF modification_type \in {"delete_component", "add_component", "change_component_value"}
    THEN "high"
    ELSE IF modification_type \in {"reroute_net", "add_track"}
    THEN "medium"
    ELSE IF modification_type \in {"delete_net", "split_net", "merge_nets"}
    THEN "critical"
    ELSE IF modification_type \in {"update_silkscreen", "modify_text", "change_color"}
    THEN "safe"
    ELSE "medium"

\* The number of warnings get_advanced_operation_warnings returns.
get_advanced_operation_warnings(operation_type) ==
    IF operation_type = "add_copper_layers" THEN 4
    ELSE IF operation_type = "modify_board_settings" THEN 3
    ELSE IF operation_type = "change_stackup" THEN 3
    ELSE 0

\* request_permission whose auto_approve_safe level approves every tier.
request_permission_safe_level_approves_all(level, description, risk) ==
    LET request == [ description |-> description, risk |-> risk,
                     approved |-> "pending", auto_approved |-> FALSE,
                     requires_user_input |-> TRUE ]
    IN  IF level = "read_only"
        THEN [request EXCEPT !.approved = "denied", !.requires_user_input = FALSE]
        ELSE IF level \in {"auto_approve_all", "auto_approve_safe"}
        THEN [request EXCEPT !.approved = "approved", !.auto_approved = TRUE,
                             !.requires_user_input = FALSE]
        ELSE request

\* approved: "approved" (True), "denied" (False) or "pending" (None)
request_permission(level, description, risk) ==
    LET request == [ description |-> description, risk |-> risk,
                     approved |-> "pending", auto_approved |-> FALSE,
                     requires_user_input |-> TRUE ]
    IN  IF level = "read_only"
        THEN [request EXCEPT !.approved = "denied", !.requires_user_input = FALSE]
        ELSE IF level = "auto_approve_all"
        THEN [request EXCEPT !.approved = "approved", !.auto_approved = TRUE,
                             !.requires_user_input = FALSE]
        ELSE IF level = "auto_approve_safe" /\ risk = "safe"
        THEN [request EXCEPT !.approved = "approved", !.auto_approved = TRUE,
                             !.requires_user_input = FALSE]
        ELSE request

\* Nothing assessed and nothing requested yet.
NoRequest ==
    [ type |-> "none", assessed |-> "none", warnings |-> 0, level |-> "none",
      request |-> [ description |-> "none", risk |-> "none", approved |-> "pending",
                    auto_approved |-> FALSE, requires_user_input |-> TRUE ] ]

-----------------------------------------------------------------------------
(* CircuitGenerator *)

NoCircuit == "none"

TemplateKeys == {"usb4_flex", "usbc_lightning", "led_controller", "power_supply"}

estimated_layers(template) == IF template = "usb4_flex" THEN 4 ELSE 2

\* identify_circuit_from_description that tests the LED controller keywords
\* before the Lightning ones.
identify_circuit_from_description_led_first(description) ==
    IF description \cap {"usb4", "usb 4", "thunderbolt", "usb-c flex", "usb4 flex"} # {}
    THEN "usb4_flex"
    ELSE IF description \cap {"led strip", "rgb led", "led controller", "pwm led"} # {}
    THEN "led_controller"
    ELSE IF description \cap {"lightning", "usbc lightning", "usb-c lightning"} # {}
    THEN "usbc_lightning"
    ELSE IF description \cap {"power supply", "buck converter", "voltage regulator", "psu"} # {}
    THEN "power_supply"
    ELSE NoCircuit

\* description: the set of keyword phrases the lower-cased text contains.
identify_circuit_from_description(description) ==
    IF description \cap {"usb4", "usb 4", "thunderbolt", "usb-c flex", "usb4 flex"} # {}
    THEN "usb4_flex"
    ELSE IF description \cap {"lightning", "usbc lightning", "usb-c lightning"} # {}
    THEN "usbc_lightning"
    ELSE IF description \cap {"led strip", "rgb led", "led controller", "pwm led"} # {}
    THEN "led_controller"
    ELSE IF description \cap {"power supply", "buck converter", "voltage regulator", "psu"} # {}
    THEN "power_supply"
    ELSE NoCircuit

\* A complexity estimate that recommends two layers more than the template.
recommended_layers_padded(template) == estimated_layers(template) + 2

\* estimate_pcb_complexity(template)["recommended_layers"]
recommended_layers(template) == estimated_layers(template)

-----------------------------------------------------------------------------
(* AIAPIClient: the PCB flow handlers.  es is the engine state threaded      *)
(* through a message: board, backup, history and the engine calls made.      *)

EngState(b, bk, h, cs) == [board |-> b, backup |-> bk, history |-> h, calls |-> cs]

Call(op, arg, via, res) == [op |-> op, arg |-> arg, via |-> via, res |-> res]

\* What the wrapper AIAPIClient.add_copper_layers hands back for the engine
\* result e: (success, engine state with the call recorded).
Wrapped(es, e, target_count, via) ==
    [ ok |-> e.res.ok,
      es |-> EngState(e.board, e.backup, e.history,
                      Append(es.calls, Call("add_copper_layers", target_count, via, e.res))) ]

\* AIAPIClient.add_copper_layers: the wrapper around kicad_ops.add_copper_layers
client_add_copper_layers(es, target_count, fault, via) ==
    IF ~KICAD_OPS_AVAILABLE THEN [ok |-> FALSE, es |-> es]
    ELSE The({ Wrapped(es, e, target_count, via) :
                   e \in {add_copper_layers(es.board, es.backup, es.history,
                                            target_count, fault)} })

\* get_layer_info() carries "error" when pcbnew is missing or no board is open.
layer_info_error(b) == ~KICAD_OPS_AVAILABLE \/ ~b.pcbnew \/ ~b.present

\* (ok, engine state after); approved_layers = 0 stands for None.
create_pcb_layout(es, circuit, approved_layers, fault) ==
    IF ~CIRCUIT_GEN_AVAILABLE \/ ~KICAD_OPS_AVAILABLE THEN [ok |-> FALSE, es |-> es]
    ELSE IF circuit = NoCircuit THEN [ok |-> FALSE, es |-> es]
    ELSE IF layer_info_error(es.board) THEN [ok |-> TRUE, es |-> es]
    ELSE LET target_layers == IF approved_layers # 0 THEN approved_layers
                              ELSE estimated_layers(circuit)
         IN  IF target_layers > es.board.copper
             THEN client_add_copper_layers(es, target_layers, fault, "send_message")
             ELSE [ok |-> TRUE, es |-> es]

pcb_keywords == {"go to pcb", "pcb layout", "create pcb", "make pcb", "yes", "proceed"}

approval_keywords == {"yes", "proceed", "ok", "agree", "go ahead", "continue"}

\* What a flow handler returns: (handled, what it appends to the reply,
\* engine state after).
NotHandled(es) == [ok |-> FALSE, text |-> "none", es |-> es]

\* A handler's result when create_pcb_layout returned made.
Handled(made, text) ==
    [ok |-> made.ok, text |-> IF made.ok THEN text ELSE "none", es |-> made.es]

handle_pcb_transition_request(es, circuit, message, fault) ==
    IF message \cap pcb_keywords = {} THEN NotHandled(es)
    ELSE IF ~CIRCUIT_GEN_AVAILABLE \/ circuit = NoCircuit THEN NotHandled(es)
    ELSE IF recommended_layers(circuit) > 2
    THEN [ok |-> TRUE, text |-> "layer_recommendation", es |-> es]
    ELSE Handled(create_pcb_layout(es, circuit, 2, fault), "layout_2_layer")

handle_layer_approval(es, circuit, message, fault) ==
    IF message \cap approval_keywords = {} THEN NotHandled(es)
    ELSE IF ~CIRCUIT_GEN_AVAILABLE \/ circuit = NoCircuit THEN NotHandled(es)
    ELSE Handled(create_pcb_layout(es, circuit, estimated_layers(circuit), fault),
                 "layout_created")

\* What process_advanced_request returns: (detected, data of the operation).
NoAdvancedOperation ==
    [detected |-> FALSE, operation |-> "none", target_count |-> 0,
     settings |-> {}, can_perform |-> FALSE]

\* The settings whose keyword is followed by a value in millimetres
\* (`track\s+width.*?(\d+\.?\d*)\s*mm` and the like): the phrase "mm" stands
\* for a number with its unit after the keyword.
ParsedSettings(request, numbers) ==
    IF "mm" \in request /\ numbers # <<>>
    THEN request \cap {"track width", "via size", "clearance"}
    ELSE {}

\* AIAPIClient.process_advanced_request.  request: the keyword phrases of the
\* lower-cased text; numbers: re.findall(r'\d+', user_request), in order.
process_advanced_request(request, numbers, b) ==
    IF "add" \in request /\ request \cap {"copper", "layer"} # {}
    THEN IF numbers = <<>> THEN NoAdvancedOperation
         ELSE LET target_count ==
                      IF "layer" \in request THEN numbers[Len(numbers)]
                      ELSE IF ~layer_info_error(b) THEN b.copper + numbers[1]
                      ELSE numbers[1]
              IN  [detected |-> TRUE, operation |-> "add_layers",
                   target_count |-> target_count, settings |-> {},
                   can_perform |-> KICAD_OPS_AVAILABLE
                                   /\ can_add_copper_layers(b, target_count).ok]
    ELSE IF request \cap {"track width", "via size", "clearance", "settings"} # {}
            /\ ParsedSettings(request, numbers) # {}
    THEN [detected |-> TRUE, operation |-> "modify_settings", target_count |-> 0,
          settings |-> ParsedSettings(request, numbers),
          can_perform |-> KICAD_OPS_AVAILABLE]
    ELSE NoAdvancedOperation

-----------------------------------------------------------------------------
(* AIAPIClient: memory *)

decision_keywords ==
    {"change", "modify", "move", "rotate", "delete", "add", "place", "route",
     "connect", "disconnect", "resize", "adjust", "optimize", "improve", "fix",
     "correct", "update", "replace", "swap"}

\* Keyword phrases of the texts send_message appends to the provider's answer.
GeneratedText == {"add", "component", "connect", "fix"}
RecommendationText == {"improve"}
LayoutText == {"place", "component", "route"}

AppendedText(text) ==
    IF text = "layer_recommendation" THEN RecommendationText
    ELSE IF text \in {"layout_2_layer", "layout_created"} THEN LayoutText
    ELSE {}

DecisionCategory(user, ai) ==
    IF "component" \in user \/ "component" \in ai THEN "Component modification"
    ELSE IF "route" \in user \/ "trace" \in user THEN "Routing change"
    ELSE IF "placement" \in user \/ "move" \in user THEN "Placement adjustment"
    ELSE "Design change"

LastN(s, n) == IF Len(s) > n THEN SubSeq(s, Len(s) - n + 1, Len(s)) ELSE s

\* _extract_design_decisions that keeps the oldest entries when the log is full.
_extract_design_decisions_keeping_oldest(memory, user, ai) ==
    IF (user \cup ai) \cap decision_keywords # {}
    THEN SubSeq(Append(memory, [category |-> DecisionCategory(user, ai)]),
                1, Min(Len(memory) + 1, MaxMemoryLength))
    ELSE memory

_extract_design_decisions(memory, user, ai) ==
    IF (user \cup ai) \cap decision_keywords # {}
    THEN LastN(Append(memory, [category |-> DecisionCategory(user, ai)]),
               MaxMemoryLength)
    ELSE memory

_trim_history(history) == LastN(history, MaxHistoryLength)

\* The entries of session_history: "role" and "circuit_request" /
\* "circuit_generated".  The content is read only to build the next prompt.
UserTurn(message, is_circuit_request) ==
    [role |-> "user", circuit |-> is_circuit_request]

AssistantTurn(text, is_circuit_request) ==
    [role |-> "assistant", circuit |-> is_circuit_request]

-----------------------------------------------------------------------------
(* AIAPIClient.send_message.  outcome: what the provider call did ("text": an *)
(* answer with the phrases ai_text, "empty": an answer without text, "error": *)
(* the call raised).  Returns the session state after the message.            *)

Session(sh, dm, cc, es, rep) ==
    [session_history |-> sh, design_memory |-> dm, current_circuit |-> cc,
     es |-> es, reply |-> rep]

\* `if handle_pcb_transition_request(..): .. elif handle_layer_approval(..): ..`
\* once the first handler returned pcb.
ElifLayerApproval(pcb, circuit, message, fault) ==
    IF pcb.ok THEN pcb
    ELSE handle_layer_approval(pcb.es, circuit, message, fault)

\* The end of send_message for a provider answer: the assistant turn, the
\* design decisions and the trim.  done is what the flow handlers returned.
Answered(sh1, dm, cc, message, ai_text, done) ==
    Session(_trim_history(Append(sh1,
                AssistantTurn(ai_text \cup AppendedText(done.text), FALSE))),
            _extract_design_decisions(dm, message,
                                      ai_text \cup AppendedText(done.text)),
            cc, done.es,
            IF done.text = "none" THEN "answer" ELSE done.text)

\* AIAPIClient.identify_circuit_request: the template matched, or NoCircuit.
identify_circuit_request(user_message) ==
    IF CIRCUIT_GEN_AVAILABLE THEN identify_circuit_from_description(user_message)
    ELSE NoCircuit

\* send_message from the provider call on: sh1 is the history with the user
\* turn appended, template what identify_circuit_request returned.
send_message_after_call(sh1, dm, cc, es, message, template, outcome, ai_text, fault) ==
    IF outcome = "error" THEN Session(sh1, dm, cc, es, "raised")
    ELSE IF outcome = "empty" THEN Session(sh1, dm, cc, es, "no_response")
    ELSE IF template # NoCircuit
    THEN \* generate_circuit: create_schematic sets current_circuit
         Session(_trim_history(Append(sh1,
                     AssistantTurn(ai_text \cup GeneratedText, TRUE))),
                 _extract_design_decisions(dm, message, ai_text \cup GeneratedText),
                 template, es, "circuit_generated")
    ELSE The({ Answered(sh1, dm, cc, message, ai_text, done) :
                   done \in { ElifLayerApproval(
                                  handle_pcb_transition_request(es, cc, message, fault),
                                  cc, message, fault) } })

send_message(sh, dm, cc, es, message, outcome, ai_text, fault) ==
    send_message_after_call(
        Append(sh, UserTurn(message, identify_circuit_request(message) # NoCircuit)),
        dm, cc, es, message, identify_circuit_request(message), outcome, ai_text, fault)

-----------------------------------------------------------------------------
(* ChatThread (ui.py): the worker thread of one chat request.  pc is its     *)
(* position: "started", "calling" (inside send_message, user turn stored),   *)
(* "returned" (the provider call is over), "emitted" (its signal is queued   *)
(* for the window), "handled" (the window's slot has run), "finished" (run   *)
(* ended without a signal).                                                  *)

ChatThread(client, message) ==
    [ pc |-> "started", client |-> client, message |-> message,
      template |-> NoCircuit, outcome |-> "none", ai_text |-> {},
      requests |-> 0, signal |-> "none", emitted |-> 0 ]

\* A send_message that calls the provider once more after a failed call.
after_provider_call_retrying(outcome, requests) ==
    IF outcome = "error" /\ requests < 2 THEN "calling" ELSE "returned"

\* Where send_message goes on after urlopen returned or raised (requests: the
\* calls made so far, this one included): no path leads back to the call.
after_provider_call(outcome, requests) == "returned"

\* A run() that emits nothing when send_message returns no text.
run_dropping_empty_response(result) ==
    IF result = "raised" THEN "error_occurred"
    ELSE IF result = "no_response" THEN "none"
    ELSE "response_ready"

\* ChatThread.run: the signal emitted for what send_message did.
run(result) ==
    IF result = "raised" THEN "error_occurred"
    ELSE IF result = "no_response" THEN "error_occurred"
    ELSE "response_ready"

-----------------------------------------------------------------------------
(* Inputs *)

\* target_count of add_copper_layers
Targets == (1..MaxSmallTarget) \cup {MaxCopperLayers, MaxCopperLayers + 1}

\* settings of modify_board_settings, in hundredths of a millimetre
SettingsInputs ==
    { ("track_width" :> 10),
      ("min_track_width" :> 10) @@ ("via_size" :> 60) @@ ("via_drill" :> 30)
          @@ ("clearance" :> 15) }

FaultPoints == 0..MaxFault

\* phrases a description may contain: the template keywords and others
DescriptionPhrases ==
    { "usb4", "usb 4", "thunderbolt", "usb-c flex", "usb4 flex",
      "lightning", "usbc lightning", "usb-c lightning",
      "led strip", "rgb led", "led controller", "pwm led",
      "power supply", "buck converter", "voltage regulator", "psu",
      "yes", "resistor" }

\* descriptions: the texts with at most two of the phrases
Descriptions ==
    { {} } \cup { {p, q} : p \in DescriptionPhrases, q \in DescriptionPhrases }

\* messages typed into the window
WindowMessages == { {"usb4"}, {"ok"} }

\* keyword phrases of the provider's answers to the window's requests
WindowAiTexts == { {} }

\* messages, as the keyword phrases they contain
Messages ==
    { {}, {"usb4"}, {"led strip"}, {"yes"}, {"ok"} }

ProviderOutcomes == {"text", "empty", "error"}

\* keyword phrases of the provider's answer
AiTexts == { {}, {"change"} }

\* requests with the vocabulary of process_advanced_request, next to a
\* transition or approval phrase
AdvancedRequests ==
    { {"add", "layer"}, {"add", "copper", "layer"}, {"add", "copper"},
      {"add", "layer", "ok"}, {"add", "copper", "layer", "yes"},
      {"track width", "mm", "proceed"} }

\* the numbers a request carries, in order
NumberLists == { <<>>, <<2>>, <<4>>, <<2, 4>> }

\* modification types handed to the permission manager: the types its two
\* operations name, and types neither of them names
ModificationTypes ==
    { "add_copper_layers", "change_layer_count", "modify_stackup", "change_stackup",
      "modify_board_settings", "change_track_width", "change_via_size",
      "move_component", "rotate_component", "delete_component", "add_component",
      "change_component_value", "reroute_net", "add_track", "delete_net",
      "split_net", "merge_nets", "update_silkscreen", "modify_text",
      "change_color", "change_clearance", "export_gerber" }

RiskLevels == {"safe", "low", "medium", "high", "critical"}

\* Boards the plugin may be started on: pcbnew missing, no board open, an
\* unsaved 2-layer board, a saved 2-layer board on a KiCad without
\* m_TrackClearance, a saved 4-layer board whose In1.Cu the user renamed.
InitBoards ==
    { NewBoard(FALSE, FALSE, FALSE, 2, TRUE),
      NewBoard(TRUE, FALSE, FALSE, 2, TRUE),
      NewBoard(TRUE, TRUE, FALSE, 2, TRUE),
      NewBoard(TRUE, TRUE, TRUE, 2, FALSE),
      [NewBoard(TRUE, TRUE, TRUE, 4, TRUE) EXCEPT !.custom_names = {1}] }

\* Boards the assistant window is explored on: no board open, and the saved
\* 2-layer board.
WindowBoards == {b \in InitBoards : b.pcbnew /\ (b.file \/ ~b.present) /\ b.copper = 2}

-----------------------------------------------------------------------------
(* The state machine *)

MutationOps == {"add_copper_layers", "modify_board_settings"}

\* The calls cs of a step end in a successful mutation.
LastCall(cs) == cs # <<>> /\ cs[Len(cs)].op \in MutationOps /\ cs[Len(cs)].res.ok

Init ==
    /\ board \in InitBoards
    /\ backup_settings = NoBackup
    /\ operation_history = <<>>
    /\ permission_level = "ask_permission"
    /\ permission_request = NoRequest
    /\ input_enabled = TRUE
    /\ chat_threads = <<>>
    /\ window_client = 0
    /\ current_circuit = NoCircuit
    /\ session_history = <<>>
    /\ design_memory = <<>>
    /\ calls = <<>>
    /\ prev = FALSE
    /\ undone = FALSE
    /\ before = <<>>
    /\ recommended = FALSE
    /\ reply = "none"

\* The engine part of a step that left the engine in state es.
EngineEffect(es) ==
    /\ Len(es.history) <= MaxOps
    /\ board' = es.board
    /\ backup_settings' = es.backup
    /\ operation_history' = es.history
    /\ calls' = es.calls
    /\ prev' = LastCall(calls)
    /\ undone' = IF \E i \in 1..Len(es.calls) :
                        es.calls[i].op = "undo_last_operation" /\ es.calls[i].res.ok
                  THEN TRUE
                  ELSE IF Len(es.history) > Len(operation_history) THEN FALSE
                  ELSE undone
    /\ before' = IF Len(es.history) > Len(operation_history)
                 THEN Append(before, [track_width |-> board.track_width,
                                     via_size |-> board.via_size,
                                     via_drill |-> board.via_drill])
                 ELSE SubSeq(before, 1, Len(es.history))

NoEngineCall ==
    /\ calls' = <<>>
    /\ prev' = LastCall(calls)
    /\ UNCHANGED <<board, backup_settings, operation_history, undone, before>>

Direct(e, op, arg) ==
    EngState(e.board, e.backup, e.history, <<Call(op, arg, "direct", e.res)>>)

AddCopperLayers(target_count, fault) ==
    /\ UNCHANGED WindowVars
    /\ EngineEffect(Direct(add_copper_layers(board, backup_settings, operation_history,
                                             target_count, fault),
                           "add_copper_layers", target_count))
    /\ reply' = "none"
    /\ UNCHANGED <<permission_level, permission_request, current_circuit, session_history, design_memory,
                   recommended>>

ModifyBoardSettings(settings, fault) ==
    /\ UNCHANGED WindowVars
    /\ EngineEffect(Direct(modify_board_settings(board, backup_settings, operation_history,
                                                 settings, fault),
                           "modify_board_settings", settings))
    /\ reply' = "none"
    /\ UNCHANGED <<permission_level, permission_request, current_circuit, session_history, design_memory,
                   recommended>>

UndoLastOperation(fault) ==
    /\ UNCHANGED WindowVars
    /\ EngineEffect(Direct(undo_last_operation(board, backup_settings, operation_history,
                                               fault),
                           "undo_last_operation", 0))
    /\ reply' = "none"
    /\ UNCHANGED <<permission_level, permission_request, current_circuit, session_history, design_memory,
                   recommended>>

ClearOperationHistory ==
    /\ UNCHANGED WindowVars
    /\ operation_history # <<>>
    /\ operation_history' = <<>>
    /\ before' = <<>>
    /\ calls' = <<>>
    /\ prev' = LastCall(calls)
    /\ reply' = "none"
    /\ UNCHANGED <<board, backup_settings, undone, permission_level, permission_request,
                   current_circuit, session_history, design_memory, recommended>>

\* The step that leaves the session as send_message returned it.
SessionEffect(after) ==
    /\ EngineEffect(after.es)
    /\ session_history' = after.session_history
    /\ design_memory' = after.design_memory
    /\ current_circuit' = after.current_circuit
    /\ reply' = after.reply
    /\ recommended' = IF after.reply = "layer_recommendation" THEN TRUE
                      ELSE IF after.reply \in {"circuit_generated", "layout_2_layer",
                                               "layout_created"}
                      THEN FALSE
                      ELSE recommended

SendMessage(message, outcome, ai_text, fault) ==
    /\ UNCHANGED WindowVars
    /\ Len(session_history) < MaxTurns
    /\ SessionEffect(send_message(session_history, design_memory, current_circuit,
                                  EngState(board, backup_settings, operation_history, <<>>),
                                  message, outcome, ai_text, fault))
    /\ UNCHANGED <<permission_level, permission_request>>

ClearAll ==
    /\ UNCHANGED WindowVars
    /\ session_history # <<>> \/ design_memory # <<>>
    /\ session_history' = <<>>
    /\ design_memory' = <<>>
    /\ reply' = "none"
    /\ NoEngineCall
    /\ UNCHANGED <<permission_level, permission_request, current_circuit, recommended>>

ClearCurrentCircuit ==
    /\ UNCHANGED WindowVars
    /\ current_circuit # NoCircuit
    /\ current_circuit' = NoCircuit
    /\ recommended' = FALSE
    /\ reply' = "none"
    /\ NoEngineCall
    /\ UNCHANGED <<permission_level, permission_request, session_history, design_memory>>

SetPermissionLevel(level) ==
    /\ UNCHANGED WindowVars
    /\ level # permission_level
    /\ permission_level' = level
    /\ reply' = "none"
    /\ NoEngineCall
    /\ UNCHANGED <<permission_request, current_circuit, session_history, design_memory,
                   recommended>>

\* The host assesses a modification type: its risk tier and its warnings.
AssessModification(modification_type) ==
    /\ UNCHANGED WindowVars
    /\ permission_request' =
           [permission_request EXCEPT
               !.type = modification_type,
               !.assessed = assess_modification_risk(modification_type),
               !.warnings = get_advanced_operation_warnings(modification_type)]
    /\ reply' = "none"
    /\ NoEngineCall
    /\ UNCHANGED <<permission_level, current_circuit, session_history, design_memory,
                   recommended>>

\* The host asks the permission manager for a modification of tier risk.
RequestPermission(risk) ==
    /\ UNCHANGED WindowVars
    /\ permission_request' =
           [permission_request EXCEPT
               !.level = permission_level,
               !.request = request_permission(permission_level, "modification", risk)]
    /\ reply' = "none"
    /\ NoEngineCall
    /\ UNCHANGED <<permission_level, current_circuit, session_history, design_memory,
                   recommended>>

\* The session: messages through the orchestrator and the host's settings.
Next ==
    \/ \E m \in Messages, o \in ProviderOutcomes, a \in AiTexts, f \in FaultPoints :
          SendMessage(m, o, a, f)
    \/ ClearAll
    \/ ClearCurrentCircuit
    \/ \E l \in PermissionLevels : SetPermissionLevel(l)

Spec == Init /\ [][Next]_vars

\* The mutation engine alone, called through the client's wrappers, and the
\* host clearing the operation history.
NextEngine ==
    \/ \E t \in Targets, f \in FaultPoints : AddCopperLayers(t, f)
    \/ \E s \in SettingsInputs, f \in FaultPoints : ModifyBoardSettings(s, f)
    \/ \E f \in FaultPoints : UndoLastOperation(f)
    \/ ClearOperationHistory

SpecEngine == Init /\ [][NextEngine]_vars

\* What a worker step that leaves the session as r does to the session of
\* its client: the window sees it only while it still holds that client.
WorkerEffect(i, r) ==
    /\ EngineEffect(r.es)
    /\ current_circuit' = r.current_circuit
    /\ reply' = r.reply
    /\ recommended' = IF r.reply = "layer_recommendation" THEN TRUE
                      ELSE IF r.reply \in {"circuit_generated", "layout_2_layer",
                                           "layout_created"}
                      THEN FALSE
                      ELSE recommended
    /\ session_history' = IF chat_threads[i].client = window_client
                          THEN r.session_history ELSE session_history
    /\ design_memory' = IF chat_threads[i].client = window_client
                        THEN r.design_memory ELSE design_memory
    /\ chat_threads' =
           [chat_threads EXCEPT
               ![i].pc = IF run(r.reply) = "none" THEN "finished" ELSE "emitted",
               ![i].signal = run(r.reply),
               ![i].emitted = IF run(r.reply) = "none" THEN @ ELSE @ + 1,
               ![i].message = {},
               ![i].template = NoCircuit,
               ![i].outcome = "none",
               ![i].ai_text = {}]

\* SmartCatAssistantWindow.send_message: show_progress and a new ChatThread.
WindowSendMessage(message) ==
    /\ input_enabled
    /\ Len(chat_threads) < MaxThreads
    /\ input_enabled' = FALSE
    /\ chat_threads' = Append(chat_threads, ChatThread(window_client, message))
    /\ NoEngineCall
    /\ UNCHANGED <<permission_level, permission_request, current_circuit,
                   session_history, design_memory, recommended, reply, window_client>>

\* SmartCatAssistantWindow.refresh_context: show_progress, the context
\* summary, hide_progress (on both paths).
RefreshContext ==
    /\ input_enabled' = TRUE
    /\ NoEngineCall
    /\ UNCHANGED <<permission_level, permission_request, current_circuit,
                   session_history, design_memory, recommended, reply,
                   chat_threads, window_client>>

\* SmartCatAssistantWindow.show_settings, the dialog accepted: the window gets
\* a new AIAPIClient (empty history and memory).
ShowSettings ==
    /\ window_client < MaxClients
    /\ window_client' = window_client + 1
    /\ session_history' = <<>>
    /\ design_memory' = <<>>
    /\ NoEngineCall
    /\ UNCHANGED <<permission_level, permission_request, current_circuit,
                   recommended, reply, input_enabled, chat_threads>>

\* MemoryPanel.clear_memory, confirmed: clear_all() on the client the panel
\* was built with, the window's first one.
ClearMemory ==
    /\ session_history' = IF window_client = 0 THEN <<>> ELSE session_history
    /\ design_memory' = IF window_client = 0 THEN <<>> ELSE design_memory
    /\ NoEngineCall
    /\ UNCHANGED <<permission_level, permission_request, current_circuit,
                   recommended, reply, input_enabled, chat_threads, window_client>>

\* on_response_received / on_error_occurred: the slot of thread i's signal.
OnSignal(i) ==
    /\ i \in 1..Len(chat_threads)
    /\ chat_threads[i].pc = "emitted"
    /\ chat_threads' = [chat_threads EXCEPT ![i].pc = "handled"]
    /\ input_enabled' = TRUE
    /\ NoEngineCall
    /\ UNCHANGED <<permission_level, permission_request, current_circuit,
                   session_history, design_memory, recommended, reply, window_client>>

\* ChatThread.run enters send_message: the circuit test and the user turn.
WorkerBegin(i) ==
    /\ i \in 1..Len(chat_threads)
    /\ chat_threads[i].pc = "started"
    /\ chat_threads' =
           [chat_threads EXCEPT
               ![i].pc = "calling",
               ![i].template = identify_circuit_request(chat_threads[i].message)]
    /\ session_history' =
           IF chat_threads[i].client = window_client
           THEN Append(session_history,
                       UserTurn(chat_threads[i].message,
                                identify_circuit_request(chat_threads[i].message) # NoCircuit))
           ELSE session_history
    /\ NoEngineCall
    /\ UNCHANGED <<permission_level, permission_request, current_circuit,
                   design_memory, recommended, reply, input_enabled, window_client>>

\* urllib.request.urlopen(request, timeout=30) returns or raises.
WorkerProviderCall(i, outcome, ai_text) ==
    /\ i \in 1..Len(chat_threads)
    /\ chat_threads[i].pc = "calling"
    /\ outcome = "text" \/ ai_text = {}
    /\ chat_threads' =
           [chat_threads EXCEPT
               ![i].pc = after_provider_call(outcome, chat_threads[i].requests + 1),
               ![i].requests = @ + 1,
               ![i].outcome = outcome,
               ![i].ai_text = ai_text]
    /\ NoEngineCall
    /\ UNCHANGED <<permission_level, permission_request, current_circuit,
                   session_history, design_memory, recommended, reply,
                   input_enabled, window_client>>

\* The rest of send_message and of run: the flow handlers, the assistant
\* turn, the design decisions, the trim, and the signal.
WorkerFinish(i, fault) ==
    /\ i \in 1..Len(chat_threads)
    /\ chat_threads[i].pc = "returned"
    /\ \E r \in { send_message_after_call(
                       IF chat_threads[i].client = window_client
                       THEN session_history ELSE <<>>,
                       IF chat_threads[i].client = window_client
                       THEN design_memory ELSE <<>>,
                       current_circuit,
                       EngState(board, backup_settings, operation_history, <<>>),
                       chat_threads[i].message, chat_threads[i].template,
                       chat_threads[i].outcome, chat_threads[i].ai_text, fault) } :
           WorkerEffect(i, r)
    /\ UNCHANGED <<permission_level, permission_request, input_enabled, window_client>>

WorkerStep(i) ==
    \/ WorkerBegin(i)
    \/ \E o \in ProviderOutcomes, a \in WindowAiTexts : WorkerProviderCall(i, o, a)
    \/ \E f \in FaultPoints : WorkerFinish(i, f)

\* The assistant window: the user's actions, the worker threads and the
\* delivery of their signals.
NextWindow ==
    \/ \E m \in WindowMessages : WindowSendMessage(m)
    \/ RefreshContext
    \/ ShowSettings
    \/ ClearMemory
    \/ \E i \in 1..MaxThreads : OnSignal(i)
    \/ \E i \in 1..MaxThreads : WorkerStep(i)

\* The window is opened on a board of WindowBoards.
InitWindow == Init /\ board \in WindowBoards

SpecWindow == InitWindow /\ [][NextWindow]_vars

\* The worker threads are scheduled, the provider call ends (timeout=30) and
\* the event loop delivers queued signals.
Progress == \E i \in 1..MaxThreads : WorkerStep(i) \/ OnSignal(i)

SpecWindowFair == SpecWindow /\ WF_vars(Progress)

\* The permission manager alone, driven by the host.
NextPermissions ==
    \/ \E l \in PermissionLevels : SetPermissionLevel(l)
    \/ \E t \in ModificationTypes : AssessModification(t)
    \/ \E r \in RiskLevels : RequestPermission(r)

SpecPermissions == Init /\ [][NextPermissions]_vars

-----------------------------------------------------------------------------
(* Properties *)

\* The engine calls of the step, as recorded in the next state.
StepCalls == {calls'[i] : i \in 1..Len(calls')}

MutationCalls == {c \in StepCalls : c.op \in MutationOps}

EngineUnchanged ==
    /\ board' = board
    /\ operation_history' = operation_history
    /\ backup_settings' = backup_settings

\* C1 (consent gating): a step of the orchestrator changes the board through
\* the mutation engine only if the permission request for that mutation, under
\* the permission level in force, is resolved as approved; a denied (read-only)
\* or pending (ask-permission) request never reaches the engine.
C1_ConsentGating ==
    [][\A c \in MutationCalls :
           c.via = "send_message" /\ board' # board =>
               request_permission(permission_level, c.op,
                                  assess_modification_risk(c.op)).approved = "approved"]_vars

\* C2 (precondition rejections change nothing): on an open board, every
\* add_copper_layers(target) with target <= current count fails with
\* NotIncreasing, else with target > 30 fails with LayerLimitExceeded, else
\* with target odd and > 2 fails with OddLayerCountRejected; every call that
\* can_add_copper_layers rejects leaves the layer count, the enabled layers,
\* the operation history and the retained snapshot as they were.
C2_RejectionsChangeNothing ==
    [][\A c \in StepCalls :
           c.op = "add_copper_layers" =>
               /\ board.pcbnew /\ board.present =>
                      /\ c.arg <= board.copper => c.res = Res(FALSE, NotIncreasing)
                      /\ c.arg > board.copper /\ c.arg > MaxCopperLayers =>
                             c.res = Res(FALSE, LayerLimitExceeded)
                      /\ c.arg > board.copper /\ c.arg <= MaxCopperLayers
                             /\ c.arg % 2 # 0 /\ c.arg > 2 =>
                             c.res = Res(FALSE, OddLayerCountRejected)
               /\ c.res = can_add_copper_layers(board, c.arg) /\ ~c.res.ok =>
                      /\ board'.copper = board.copper
                      /\ board'.enabled = board.enabled
                      /\ EngineUnchanged]_vars

\* C2: an odd target above the current count was rejected.
C2_Witness ==
    \E c \in {calls[i] : i \in 1..Len(calls)} :
        /\ c.op = "add_copper_layers"
        /\ c.res = Res(FALSE, OddLayerCountRejected)
        /\ c.arg > board.copper

\* C3 (no partial action on failure): whenever add_copper_layers or
\* modify_board_settings returns failure, the board and the operation history
\* are exactly as before the call.
C3_NoPartialActionOnFailure ==
    [][\A c \in MutationCalls :
           ~c.res.ok => board' = board /\ operation_history' = operation_history]_vars

\* C4 (SettingsBackupFailed blocks the mutation): in every reachable state, an
\* add_copper_layers that passed its preconditions, or a modify_board_settings
\* on an open board, during which reading the settings for the snapshot raises,
\* returns the failure SettingsBackupFailed, makes no write on the board,
\* appends nothing to the operation history and keeps the retained snapshot.
C4_BackupFailureBlocksMutation ==
    /\ \A t \in Targets :
           can_add_copper_layers(board, t).ok =>
               \A e \in {add_copper_layers(board, backup_settings, operation_history, t, 1)} :
                   /\ e.res = Res(FALSE, SettingsBackupFailed)
                   /\ e.board = board
                   /\ e.history = operation_history
                   /\ e.backup = backup_settings
    /\ \A s \in SettingsInputs :
           board.pcbnew /\ board.present =>
               \A e \in {modify_board_settings(board, backup_settings, operation_history, s, 1)} :
                   /\ e.res = Res(FALSE, SettingsBackupFailed)
                   /\ e.board = board
                   /\ e.history = operation_history
                   /\ e.backup = backup_settings

\* C4: a mutation call has just failed with SettingsBackupFailed on a board
\* that carries an earlier operation.
C4_Witness ==
    /\ calls # <<>>
    /\ calls[Len(calls)].res = Res(FALSE, SettingsBackupFailed)
    /\ operation_history # <<>>

\* C5 (mutations require a persisted, available board): while can_modify_board
\* is false, no add_copper_layers or modify_board_settings call succeeds,
\* changes the board or appends to the history.
C5_MutationsRequirePersistedBoard ==
    [][\A c \in MutationCalls :
           ~can_modify_board(board).ok =>
               /\ ~c.res.ok
               /\ board' = board
               /\ operation_history' = operation_history]_vars

LayerCountLegal(copper) ==
    /\ ~(copper % 2 # 0 /\ copper > 2)
    /\ copper <= MaxCopperLayers

\* C6 (layer-count invariant): after any sequence of add_copper_layers,
\* modify_board_settings and undo_last_operation the copper layer count is
\* never odd above 2 and never above 30; a successful add_copper_layers(target)
\* leaves the count equal to target, target even or 2 and at most 30; and an
\* orchestrator message sent in any such state, with any circuit active,
\* leaves a count of the same kind.
C6_LayerCountInvariant ==
    /\ LayerCountLegal(board.copper)
    /\ \A i \in 1..Len(calls) :
           calls[i].op = "add_copper_layers" /\ calls[i].res.ok =>
               /\ board.copper = calls[i].arg
               /\ LayerCountLegal(calls[i].arg)
    /\ \A m \in Messages, cc \in TemplateKeys \cup {NoCircuit}, f \in FaultPoints :
           LayerCountLegal(
               send_message(session_history, design_memory, cc,
                            EngState(board, backup_settings, operation_history, <<>>),
                            m, "text", {}, f).es.board.copper)

\* C6: a successful add_copper_layers has just raised the count to the limit.
C6_Witness ==
    /\ LastCall(calls)
    /\ calls[Len(calls)].op = "add_copper_layers"
    /\ board.copper = MaxCopperLayers

\* undo_last_operation issued on the engine state e, no pcbnew call raising.
UndoAfter(e) == undo_last_operation(e.board, e.backup, e.history, 0)

\* The engine states a successful mutation can leave from the current state.
SuccessfulMutations ==
    { e \in { add_copper_layers(board, backup_settings, operation_history, t, f) :
                  t \in Targets, f \in FaultPoints }
            \cup { modify_board_settings(board, backup_settings, operation_history, s, f) :
                       s \in SettingsInputs, f \in FaultPoints } :
        e.res.ok }

\* C7 (undo round trip): in every reachable state, for every successful
\* add_copper_layers or modify_board_settings, an undo_last_operation issued
\* immediately afterwards (no pcbnew call raising during it) succeeds, puts
\* track width, via size and via drill back at their values before the
\* mutation, and leaves the operation history equal to its value before the
\* mutation.
C7_UndoRoundTrip ==
    \A e \in SuccessfulMutations :
        \A u \in {UndoAfter(e)} :
            /\ u.res.ok
            /\ u.board.track_width = board.track_width
            /\ u.board.via_size = board.via_size
            /\ u.board.via_drill = board.via_drill
            /\ u.history = operation_history

\* C7: an undo has just succeeded right after a successful mutation, on a
\* history that still holds an older operation.
C7_Witness ==
    /\ prev
    /\ calls # <<>>
    /\ calls[Len(calls)].op = "undo_last_operation"
    /\ calls[Len(calls)].res.ok
    /\ operation_history # <<>>

\* C8 (no multi-step undo): among undo_last_operation calls with no mutation
\* recorded between them, at most the first one succeeds and removes a history
\* entry.
C8_NoMultiStepUndo ==
    [][\A c \in StepCalls :
           c.op = "undo_last_operation" /\ c.res.ok => ~undone]_vars

\* C9 (all modifications can be reversed): in every reachable state, for every
\* successful add_copper_layers or modify_board_settings followed by a
\* successful undo_last_operation, the whole board (layer count, enabled
\* layers, layer names, minimum track width and clearance included) is back at
\* its value before the mutation.
C9_AllModificationsReversed ==
    \A e \in SuccessfulMutations :
        \A u \in {UndoAfter(e)} :
            u.res.ok => u.board = board

\* C10 (failed undo changes nothing): whenever undo_last_operation returns
\* failure (nothing to undo, or restoring the snapshot fails), the operation
\* history, the retained snapshot and the board are as they were.
C10_FailedUndoChangesNothing ==
    [][\A c \in StepCalls :
           c.op = "undo_last_operation" /\ ~c.res.ok => EngineUnchanged]_vars

\* C11 (history is append-only except for undo): across every step of the
\* engine's public operations the operation history stays the same, or grows
\* by exactly one entry at the tail on a successful mutation, or loses exactly
\* its tail entry on a successful undo_last_operation.
C11_HistoryAppendOnlyExceptUndo ==
    [][\/ operation_history' = operation_history
       \/ /\ Len(operation_history') = Len(operation_history) + 1
          /\ Front(operation_history') = operation_history
          /\ \E c \in MutationCalls : c.res.ok
       \/ /\ operation_history # <<>>
          /\ operation_history' = Front(operation_history)
          /\ \E c \in StepCalls : c.op = "undo_last_operation" /\ c.res.ok]_vars

\* C12 (snapshot before mutation): every successful add_copper_layers or
\* modify_board_settings leaves as the retained snapshot exactly the snapshot
\* of the board as it was immediately before that call; the snapshot of an
\* earlier mutation is overwritten, not kept.
C12_SnapshotBeforeMutation ==
    [][\A c \in MutationCalls :
           c.res.ok =>
               /\ backup_settings' = Snapshot(board)
               /\ backup_settings'.layer_count = board.copper
               /\ backup_settings'.track_width = board.track_width
               /\ backup_settings'.via_size = board.via_size
               /\ backup_settings'.via_drill = board.via_drill
               /\ backup_settings'.min_track_width = board.min_track_width
               /\ backup_settings'.enabled_layers = board.enabled]_vars

\* C12: a second successful mutation has replaced the snapshot of the first:
\* the retained snapshot holds the 4 layers the first mutation left.
C12_Witness ==
    /\ LastCall(calls)
    /\ Len(operation_history) = 2
    /\ operation_history[1].type = "add_copper_layers"
    /\ operation_history[1].from_count = 2
    /\ ~backup_settings.empty
    /\ backup_settings.layer_count = 4

\* C13 (bounded conversation history): after any number of processed messages,
\* those whose provider call fails or returns no text included, the
\* conversation history is never longer than the configured bound.
C13_BoundedConversationHistory ==
    Len(session_history) <= MaxHistoryLength

\* C14 (provider failure leaves the session intact): when the provider call of
\* a message fails, the conversation history, the design-decision log, the
\* active circuit and the awaited recommendation, the board and the operation
\* history are exactly as they were before the message.
C14_ProviderFailureLeavesSessionIntact ==
    [][reply' = "raised" =>
           /\ session_history' = session_history
           /\ design_memory' = design_memory
           /\ current_circuit' = current_circuit
           /\ recommended' = recommended
           /\ EngineUnchanged]_vars

\* send_message for an answered message `message` in the current state, no
\* pcbnew call raising.
Answer(message) ==
    send_message(session_history, design_memory, current_circuit,
                 EngState(board, backup_settings, operation_history, <<>>),
                 message, "text", {}, 0)

\* C15 (two-step layer flow driven by a bare approval): with an active circuit
\* of more than 2 estimated layers, a first "yes" / "proceed" issues the layer
\* recommendation and makes no engine call; once the recommendation is
\* awaiting approval, a following "yes" creates the layout, calling
\* add_copper_layers with the recommended layer count where the board has
\* fewer layers.
C15_TwoStepLayerFlow ==
    current_circuit # NoCircuit /\ estimated_layers(current_circuit) > 2 =>
        /\ ~recommended =>
               \A m \in {{"yes"}, {"proceed"}} :
                   \A r \in {Answer(m)} :
                       r.reply = "layer_recommendation" /\ r.es.calls = <<>>
        /\ recommended =>
               \A r \in {Answer({"yes"})} :
                   /\ r.reply = "layout_created"
                   /\ ~layer_info_error(board)
                          /\ board.copper < recommended_layers(current_circuit) =>
                          \E i \in 1..Len(r.es.calls) :
                              /\ r.es.calls[i].op = "add_copper_layers"
                              /\ r.es.calls[i].arg = recommended_layers(current_circuit)

\* C16 (layer approval is gated by the awaited recommendation): a message makes
\* the mutation engine add copper layers only while a layer recommendation for
\* the active circuit has been issued and not yet acted on.
C16_ApprovalGatedByRecommendation ==
    [][\A c \in MutationCalls : c.via = "send_message" => recommended]_vars

\* C17 (two-layer designs skip layer approval): with an active circuit of at
\* most 2 estimated layers, every answered message that carries a
\* PCB-transition phrase creates the layout in that same message, issues no
\* layer recommendation, makes no engine call and leaves the board, the
\* retained snapshot and the operation history as they were, whichever pcbnew
\* call would have raised.
C17_TwoLayerDesignsSkipApproval ==
    current_circuit # NoCircuit /\ estimated_layers(current_circuit) <= 2 =>
        \A m \in Messages \cup {{k} : k \in pcb_keywords}, f \in FaultPoints :
            m \cap pcb_keywords # {} =>
                \A r \in {send_message(session_history, design_memory, current_circuit,
                              EngState(board, backup_settings, operation_history, <<>>),
                              m, "text", {}, f)} :
                    /\ r.reply = "layout_2_layer"
                    /\ r.es.calls = <<>>
                    /\ r.es.board = board
                    /\ r.es.backup = backup_settings
                    /\ r.es.history = operation_history
                    /\ r.current_circuit = current_circuit

\* C17: a PCB-transition message has just created the layout for the 2-layer
\* LED controller on an open board, without an engine call.
C17_Witness ==
    /\ current_circuit = "led_controller"
    /\ reply = "layout_2_layer"
    /\ board.present
    /\ calls = <<>>
    /\ operation_history = <<>>
    /\ ~recommended

\* The PCB flow handlers took effect in the answer r.
FlowHandlerActed(r) ==
    \/ r.reply \in {"layer_recommendation", "layout_2_layer", "layout_created"}
    \/ r.es.calls # <<>>

\* C18 (intent resolution is ordered and mutually exclusive): a message that
\* matches a circuit template is handled as a circuit request only; a message
\* that matches no template and that process_advanced_request detects as an
\* advanced operation never triggers a PCB transition or a layer approval,
\* whatever transition or approval phrase it also carries.
C18_IntentResolutionOrdered ==
    \A m \in Messages \cup AdvancedRequests :
        \A r \in {Answer(m)} :
            /\ identify_circuit_from_description(m) # NoCircuit =>
                   r.reply = "circuit_generated" /\ r.es.calls = <<>>
            /\ \A ns \in NumberLists :
                   /\ identify_circuit_from_description(m) = NoCircuit
                   /\ process_advanced_request(m, ns, board).detected
                   => ~FlowHandlerActed(r)

\* C19 (layer-count extraction for additive requests): on an open board with C
\* copper layers, the request "Add N copper layers" is detected as an
\* add-layers operation with target count C + N, which can be performed
\* exactly when can_add_copper_layers(C + N) succeeds.
C19_AdditiveLayerExtraction ==
    board.pcbnew /\ board.present =>
        \A n \in 1..MaxSmallTarget :
            \A a \in {process_advanced_request({"add", "copper", "layer"}, <<n>>, board)} :
                /\ a.detected
                /\ a.operation = "add_layers"
                /\ a.target_count = board.copper + n
                /\ a.can_perform = can_add_copper_layers(board, board.copper + n).ok

\* C20 (effect of a successful add_copper_layers): a successful
\* add_copper_layers(target) on a board with `current` copper layers enables
\* exactly target - current inner layers that were not enabled before, the
\* lowest ones not yet enabled, which are the layers it labels and records as
\* added, sets the copper layer count to target and appends one operation
\* {add_copper_layers, from_count = current, to_count = target}; afterwards
\* target - 2 inner copper layers are enabled.
C20_AddEnablesMissingInnerLayers ==
    [][\A c \in StepCalls :
           c.op = "add_copper_layers" /\ c.res.ok =>
               /\ board.enabled \subseteq board'.enabled
               /\ Cardinality(board'.enabled \ board.enabled) = c.arg - board.copper
               /\ \A k \in board'.enabled \ board.enabled :
                      \A j \in 1..k : j \in board'.enabled
               /\ operation_history'[Len(operation_history')].added_layers
                      = board'.enabled \ board.enabled
               /\ board'.copper = c.arg
               /\ Len(operation_history') = Len(operation_history) + 1
               /\ Front(operation_history') = operation_history
               /\ operation_history'[Len(operation_history')].type = "add_copper_layers"
               /\ operation_history'[Len(operation_history')].from_count = board.copper
               /\ operation_history'[Len(operation_history')].to_count = c.arg
               /\ Cardinality(board'.enabled) = c.arg - 2]_vars

\* C21 (risk tier table): assess_modification_risk gives every type a tier:
\* the cosmetic types safe; move/rotate component and reroute/add track medium;
\* change component value, add/delete component and the board-wide settings
\* changes high; add copper layers, change layer count, the stackup change and
\* delete/split/merge net critical; every other type medium.  Every type for
\* which get_advanced_operation_warnings returns warnings is assessed high or
\* critical.
C21_RiskTierTable ==
    permission_request.type # "none" =>
        \A t \in {permission_request.type}, risk \in {permission_request.assessed} :
            /\ risk \in RiskLevels
            /\ t \in {"update_silkscreen", "modify_text", "change_color"} <=> risk = "safe"
            /\ t \in {"change_component_value", "add_component", "delete_component",
                      "modify_board_settings", "change_track_width", "change_via_size"}
                   <=> risk = "high"
            /\ t \in {"add_copper_layers", "change_layer_count", "modify_stackup",
                      "delete_net", "split_net", "merge_nets"} <=> risk = "critical"
            /\ t \in {"move_component", "rotate_component", "reroute_net", "add_track",
                      "change_clearance", "export_gerber"} => risk = "medium"
            /\ permission_request.warnings > 0 => risk \in {"high", "critical"}

\* C22 (consent policy by mode): a new session is in ask_permission, and every
\* request the permission manager builds, for every risk tier, is denied
\* without user input under read_only, approved without user input under
\* auto_approve_all, approved without user input under auto_approve_safe
\* exactly when the tier is safe and pending otherwise, and pending under
\* ask_permission; it is auto-approved only if approved and requires user input
\* exactly when pending.
C22_ConsentPolicyByMode ==
    /\ permission_level = "ask_permission"
    /\ [](permission_request.level # "none" =>
            \A l \in {permission_request.level}, q \in {permission_request.request} :
                /\ q.risk \in RiskLevels
                /\ l = "read_only" =>
                       q.approved = "denied" /\ ~q.requires_user_input
                /\ l = "auto_approve_all" =>
                       q.approved = "approved" /\ ~q.requires_user_input
                /\ l = "auto_approve_safe" =>
                       /\ q.risk = "safe" <=> q.approved = "approved"
                       /\ q.risk # "safe" <=> q.approved = "pending"
                /\ l = "ask_permission" => q.approved = "pending"
                /\ q.auto_approved => q.approved = "approved"
                /\ q.requires_user_input <=> q.approved = "pending")

\* C22: under auto_approve_safe a request of a high tier was left pending.
C22_Witness ==
    /\ permission_request.level = "auto_approve_safe"
    /\ permission_request.request.risk = "high"
    /\ permission_request.request.approved = "pending"
    /\ permission_request.request.requires_user_input

\* A step changes the conversation history, the decision log, the current
\* circuit, the board or the operation history.
SessionMutated ==
    \/ session_history' # session_history
    \/ design_memory' # design_memory
    \/ current_circuit' # current_circuit
    \/ board' # board
    \/ operation_history' # operation_history

\* A step of the worker thread of chat request i.
WorkerStepped(i) ==
    /\ chat_threads[i].pc \in {"started", "calling", "returned"}
    /\ chat_threads'[i].pc # chat_threads[i].pc

\* C23 (single-writer concurrency): no step of a worker thread changes the
\* conversation history, the decision log, the current circuit, the board or
\* the operation history: the worker performs the provider call only and every
\* such change is made by a step of the UI thread.
C23_SingleWriter ==
    [][SessionMutated => ~(\E i \in 1..Len(chat_threads) : WorkerStepped(i))]_vars

\* Chat requests whose response or error the window has not handled yet.
InFlight == {i \in 1..Len(chat_threads) : chat_threads[i].pc # "handled"}

\* C24 (at most one request in flight): at most one chat request of the window
\* has not yet delivered its response or error, and the message input stays
\* disabled while a request is in flight.
C24_AtMostOneRequestInFlight ==
    /\ Cardinality(InFlight) <= 1
    /\ InFlight # {} => ~input_enabled

\* C25 (no automatic retry): for each submitted message send_message issues at
\* most one provider request; once the request has failed or returned, the
\* thread makes no further request.
C25_NoAutomaticRetry ==
    \A i \in 1..Len(chat_threads) :
        /\ chat_threads[i].requests <= 1
        /\ chat_threads[i].pc \in {"returned", "emitted", "handled", "finished"} =>
               chat_threads[i].requests = 1

\* C25: the provider call of a chat request failed and its error was handled.
C25_Witness ==
    \E i \in 1..Len(chat_threads) :
        /\ chat_threads[i].pc = "handled"
        /\ chat_threads[i].signal = "error_occurred"
        /\ reply = "raised"
        /\ chat_threads[i].requests = 1

\* Threads whose run() has emitted or will emit no more.
Delivered(i) == Len(chat_threads) >= i /\ chat_threads[i].pc = "handled"

\* C30 (every submitted message is answered exactly once): each chat request
\* the window starts emits at most one signal, eventually has emitted exactly
\* one of response_ready and error_occurred and had it handled; handling the
\* signal re-enables the send button and the input field, and the window never
\* stays in the in-progress state.
C30_AnsweredExactlyOnce ==
    /\ [](\A i \in 1..Len(chat_threads) :
              /\ chat_threads[i].emitted <= 1
              /\ chat_threads[i].pc \in {"emitted", "handled"} =>
                     /\ chat_threads[i].emitted = 1
                     /\ chat_threads[i].signal \in {"response_ready", "error_occurred"})
    /\ \A i \in 1..MaxThreads : (Len(chat_threads) >= i) ~> Delivered(i)
    /\ [][\A i \in 1..Len(chat_threads) :
              chat_threads[i].pc = "emitted" /\ chat_threads'[i].pc = "handled"
                  => input_enabled']_vars
    /\ (~input_enabled) ~> input_enabled

\* C30: a request whose provider call returned no text was answered with
\* error_occurred and the input is enabled again.
C30_Witness ==
    \E i \in 1..Len(chat_threads) :
        /\ chat_threads[i].pc = "handled"
        /\ chat_threads[i].signal = "error_occurred"
        /\ reply = "no_response"
        /\ input_enabled

\* C26 (modify_board_settings is sparse): a successful modify_board_settings
\* writes the settings whose keys are in the map, each to its value, and leaves
\* every other board setting and the copper layer count unchanged; where the
\* accessor has no clearance setting the call still succeeds, applies the other
\* keys, leaves the clearance alone and reports it as not available; exactly
\* one modify_board_settings operation listing one change per key is appended.
C26_ModifySettingsSparse ==
    [][\A c \in StepCalls :
           c.op = "modify_board_settings" /\ c.res.ok =>
               /\ \A k \in SettingKeys :
                      board'[k] = IF k \in DOMAIN c.arg
                                     /\ (k # "clearance" \/ board.clearance_attr)
                                  THEN FromMM(c.arg[k])
                                  ELSE board[k]
               /\ board'.copper = board.copper
               /\ board'.enabled = board.enabled
               /\ board'.custom_names = board.custom_names
               /\ board'.min_via_size = board.min_via_size
               /\ board'.min_via_drill = board.min_via_drill
               /\ Len(operation_history') = Len(operation_history) + 1
               /\ Front(operation_history') = operation_history
               /\ \A op \in {operation_history'[Len(operation_history')]} :
                      /\ op.type = "modify_board_settings"
                      /\ op.settings = c.arg
                      /\ Len(op.changes) = Cardinality(DOMAIN c.arg)
                      /\ \A k \in DOMAIN c.arg :
                             \E j \in 1..Len(op.changes) :
                                 /\ op.changes[j].key = k
                                 /\ op.changes[j].applied
                                        = (k # "clearance" \/ board.clearance_attr)
                                 /\ op.changes[j].applied => op.changes[j].mm = c.arg[k]]_vars

\* C26: a modify_board_settings with a clearance has just succeeded on an
\* accessor without the clearance setting: the via size was applied and the
\* clearance is reported as not available.
C26_Witness ==
    /\ LastCall(calls)
    /\ calls[Len(calls)].op = "modify_board_settings"
    /\ "clearance" \in DOMAIN calls[Len(calls)].arg
    /\ ~board.clearance_attr
    /\ board.via_size = FromMM(60)
    /\ board.clearance = FromMM(20)
    /\ \E j \in 1..5 :
           /\ j <= Len(operation_history[Len(operation_history)].changes)
           /\ ~operation_history[Len(operation_history)].changes[j].applied

\* The whole assistant text of the answer r to a provider answer ai_text: the
\* provider's text and what send_message appended to it.
AssistantText(r, ai_text) ==
    ai_text \cup (IF r.reply = "circuit_generated" THEN GeneratedText
                  ELSE AppendedText(r.reply))

TemplatePriority ==
    << [template |-> "usb4_flex",
        keywords |-> {"usb4", "usb 4", "thunderbolt", "usb-c flex", "usb4 flex"}],
       [template |-> "usbc_lightning",
        keywords |-> {"lightning", "usbc lightning", "usb-c lightning"}],
       [template |-> "led_controller",
        keywords |-> {"led strip", "rgb led", "led controller", "pwm led"}],
       [template |-> "power_supply",
        keywords |-> {"power supply", "buck converter", "voltage regulator", "psu"}] >>

\* The template of the first keyword set with a keyword in the text d.
FirstMatch(d) ==
    LET hits == {j \in 1..Len(TemplatePriority) : TemplatePriority[j].keywords \cap d # {}}
    IN  IF hits = {} THEN NoCircuit
        ELSE TemplatePriority[CHOOSE j \in hits : \A k \in hits : j <= k].template

\* C28 (template matching is a pure first-match-wins function): in every
\* session state, for every description, the matching returns the template of
\* the first keyword set, in the order USB4, USB-C-to-Lightning, LED
\* controller, power supply, that has a keyword in the text, and none for a
\* text without keyword; and a message whose provider call gives no answer,
\* matched or not, leaves the current circuit, the decision log, the board and
\* the operation history unchanged.
C28_TemplateMatchingFirstMatch ==
    /\ \A d \in Descriptions :
           /\ identify_circuit_request(d) = FirstMatch(d)
           /\ identify_circuit_from_description(d) \in TemplateKeys \cup {NoCircuit}
           /\ d \cap UNION {TemplatePriority[j].keywords : j \in 1..Len(TemplatePriority)} = {}
                  => identify_circuit_request(d) = NoCircuit
    /\ \A m \in Messages, o \in {"empty", "error"}, f \in FaultPoints :
           \A r \in {send_message(session_history, design_memory, current_circuit,
                         EngState(board, backup_settings, operation_history, <<>>),
                         m, o, {}, f)} :
               /\ r.current_circuit = current_circuit
               /\ r.design_memory = design_memory
               /\ r.es.board = board
               /\ r.es.history = operation_history

\* C28: a message that matched a template went unanswered: the user turn is
\* marked as a circuit request and no circuit is active.
C28_Witness ==
    /\ reply = "raised"
    /\ session_history # <<>>
    /\ session_history[Len(session_history)].role = "user"
    /\ session_history[Len(session_history)].circuit
    /\ current_circuit = NoCircuit

\* C29 (undo restores the state before the operation it removes): in every
\* sequence of successful and failed add_copper_layers, modify_board_settings
\* and undo_last_operation calls, each successful undo_last_operation leaves
\* track width, via size and via drill at the values the board had immediately
\* before the operation it removes was applied.
C29_UndoRestoresStateBeforeOperation ==
    [][\A c \in StepCalls :
           c.op = "undo_last_operation" /\ c.res.ok =>
               /\ operation_history' = Front(operation_history)
               /\ board'.track_width = before[Len(operation_history)].track_width
               /\ board'.via_size = before[Len(operation_history)].via_size
               /\ board'.via_drill = before[Len(operation_history)].via_drill]_vars

====
